---- MODULE Spec2Model ----
(***************************************************************************)
(* a3s: keyboard navigation controller (useNavigation), resource cache     *)
(* (ResourceCacheProvider), fetch orchestration (useResources), the input  *)
(* listeners of Home / ResourceList / ConfirmationDialog, and the          *)
(* keyboard-simulation dispatcher of the integration tests.                *)
(***************************************************************************)
EXTENDS Integers, Sequences, FiniteSets, TLC

VARIABLES
    \* ---- process environment ----
    nodeEnv,         \* process.env.NODE_ENV
    backendEnv,      \* process.env.A3S_BACKEND
    now,             \* Date.now()
    ticks,           \* history: number of clock advances so far
    \* ---- useNavigation (the mounted controller) ----
    selectedIndex,   \* useState(0)
    renderedIndex,   \* selectedIndex as the last render read it (closure of select)
    itemCount,       \* prop itemCount of the last render
    isActive,        \* prop isActive of the last render
    navProps,        \* props fixed at mount: allowTestInput, onSelect / onQuit given
    countChanged,    \* history: itemCount changed since the controller was mounted
    \* ---- ResourceCacheProvider ----
    cache,           \* useState(new Map()): key -> Null | Some(entry)
    clearCount,      \* history: number of clearCache() calls
    clearedKeys,     \* history: the keys that held an entry at the last clearCache()
    ctxCache,        \* the map in the closures of the context value a direct consumer
                     \* of useResourceCache() rendered with
    \* ---- useResources ----
    hook,            \* per consumer: the hook's useState cells and its closure
    pending,         \* fetches in flight (awaiting createProvider or listEC2)
    \* ---- App / Home ----
    currentScreen,   \* App: useState<Screen>('home')
    shouldQuit,      \* App: useState(false)
    timers,          \* App: the setTimeout(() => setCurrentScreen(screen), 0) not yet run
    showConfirmation,\* Home: useState(false)
    \* ---- keyboard simulation of the integration tests ----
    inputHandlers,   \* the handlers stored by the useInput mock
    \* ---- history shared by all components ----
    lastOp,          \* <<operation, component>> performed by the last step
    fired            \* callbacks invoked by the last step

envVars == <<nodeEnv, backendEnv, now, ticks>>
navVars == <<selectedIndex, renderedIndex, itemCount, isActive, navProps, countChanged>>
cacheVars == <<cache, clearCount, clearedKeys>>
fetchVars == <<hook, pending>>
uiVars == <<currentScreen, shouldQuit, timers, showConfirmation>>
harnessVars == <<inputHandlers>>
consumerVars == <<ctxCache>>
vars == <<nodeEnv, backendEnv, now, ticks,
          selectedIndex, renderedIndex, itemCount, isActive, navProps, countChanged,
          cache, clearCount, clearedKeys, ctxCache, hook, pending,
          currentScreen, shouldQuit, timers, showConfirmation, inputHandlers,
          lastOp, fired>>

(***************************************************************************)
(* Bounds                                                                  *)
(***************************************************************************)
MaxItems == 3        \* largest itemCount a render passes to the controller
MaxIndex == 4        \* |selectedIndex| explored (the code itself has no limit)
MaxTicks == 3        \* clock advances explored
MaxPending == 2      \* fetches in flight at once
MaxClears == 1       \* clearCache() calls explored
MaxHandlers == 3     \* handlers stored by the useInput mock
MaxTimers == 1       \* screen changes scheduled by setTimeout and not yet run

\* JavaScript null / a present value
Null == <<>>
Some(x) == <<x>>
Val(o) == o[1]

NodeEnvs == {"test", "production"}

(***************************************************************************)
(* Key events: [input, upArrow, downArrow, leftArrow, return, escape]      *)
(***************************************************************************)
Key(input, flag) ==
    [input |-> input, upArrow |-> flag = "upArrow", downArrow |-> flag = "downArrow",
     leftArrow |-> flag = "leftArrow", return |-> flag = "return",
     escape |-> flag = "escape"]

Keys ==
    {Key("", f) : f \in {"upArrow", "downArrow", "leftArrow", "return", "escape"}}
    \cup {Key(i, "") : i \in {"k", "j", "q", "r", "c", "C", "y", "Y", "n", "N", "x"}}

KeyName(key) ==
    IF key.input # "" THEN key.input
    ELSE IF key.upArrow THEN "upArrow"
    ELSE IF key.downArrow THEN "downArrow"
    ELSE IF key.leftArrow THEN "leftArrow"
    ELSE IF key.return THEN "return"
    ELSE "escape"

Fired(by, cb, arg) == [by |-> by, cb |-> cb, arg |-> arg]

(***************************************************************************)
(* useNavigation                                                           *)
(***************************************************************************)
\* prev => (prev === 0 ? itemCount - 1 : prev - 1)
moveUpOffByOne(prev, n) == IF prev = 0 THEN n ELSE prev - 1
moveUp(prev, n) == IF prev = 0 THEN n - 1 ELSE prev - 1

\* prev => (prev === itemCount - 1 ? 0 : prev + 1)
moveDownNoWrap(prev, n) == prev + 1
moveDown(prev, n) == IF prev = n - 1 THEN 0 ELSE prev + 1

\* the reset effect: runs after a render whose isActive or itemCount changed
\* (a variant that clamps to the last item instead of returning to 0)
resetEffectClamp(prev, n, active) == IF active /\ prev >= n THEN n - 1 ELSE prev
resetEffect(prev, n, active) == IF active /\ prev >= n THEN 0 ELSE prev

\* isActive option handed to useInput by useNavigation
navInputActiveAlways(active, allowTestInput, env) == allowTestInput \/ env # "test"
navInputActive(active, allowTestInput, env) ==
    active /\ (allowTestInput \/ env # "test")

InIndexRange(i) == i >= -MaxIndex /\ i <= MaxIndex

\* the input handler of useNavigation: the new selectedIndex
navHandleIndex(key, prev, n) ==
    IF key.upArrow \/ key.input = "k" THEN moveUp(prev, n)
    ELSE IF key.downArrow \/ key.input = "j" THEN moveDown(prev, n)
    ELSE prev

\* the input handler of useNavigation: the callbacks it invokes
\* (a variant in which Enter reports the item after the selected one)
navHandleFiredNext(key, prev, props) ==
    IF key.upArrow \/ key.input = "k" THEN {}
    ELSE IF key.downArrow \/ key.input = "j" THEN {}
    ELSE IF key.return /\ props.onSelect THEN {Fired("nav", "onSelect", prev + 1)}
    ELSE IF key.input = "q" /\ props.onQuit THEN {Fired("nav", "onQuit", 0)}
    ELSE {}
navHandleFired(key, prev, props) ==
    IF key.upArrow \/ key.input = "k" THEN {}
    ELSE IF key.downArrow \/ key.input = "j" THEN {}
    ELSE IF key.return /\ props.onSelect THEN {Fired("nav", "onSelect", prev)}
    ELSE IF key.input = "q" /\ props.onQuit THEN {Fired("nav", "onQuit", 0)}
    ELSE {}

\* the returned moveUp() / moveDown(): callable whatever isActive is
NavMoveUp ==
    /\ InIndexRange(moveUp(selectedIndex, itemCount))
    /\ selectedIndex' = moveUp(selectedIndex, itemCount)
    /\ UNCHANGED <<uiVars, harnessVars>>
    /\ UNCHANGED consumerVars
    /\ lastOp' = <<"moveUp", "nav">>
    /\ fired' = {}
    /\ UNCHANGED <<renderedIndex, itemCount, isActive, navProps, countChanged>>
    /\ UNCHANGED <<envVars, cacheVars, fetchVars>>

NavMoveDown ==
    /\ InIndexRange(moveDown(selectedIndex, itemCount))
    /\ selectedIndex' = moveDown(selectedIndex, itemCount)
    /\ UNCHANGED <<uiVars, harnessVars>>
    /\ UNCHANGED consumerVars
    /\ lastOp' = <<"moveDown", "nav">>
    /\ fired' = {}
    /\ UNCHANGED <<renderedIndex, itemCount, isActive, navProps, countChanged>>
    /\ UNCHANGED <<envVars, cacheVars, fetchVars>>

\* the returned select() / quit()
NavSelect ==
    /\ UNCHANGED <<uiVars, harnessVars>>
    /\ UNCHANGED consumerVars
    /\ lastOp' = <<"select", "nav">>
    /\ fired' = IF navProps.onSelect THEN {Fired("nav", "onSelect", renderedIndex)} ELSE {}
    /\ UNCHANGED <<navVars, envVars, cacheVars, fetchVars>>

NavQuit ==
    /\ UNCHANGED <<uiVars, harnessVars>>
    /\ UNCHANGED consumerVars
    /\ lastOp' = <<"quit", "nav">>
    /\ fired' = IF navProps.onQuit THEN {Fired("nav", "onQuit", 0)} ELSE {}
    /\ UNCHANGED <<navVars, envVars, cacheVars, fetchVars>>

\* the argument a functional updater passed to setSelectedIndex receives: the
\* state after the updates made before it, whatever the last render read
\* (a variant that hands it the index of the last render)
updaterArgumentRendered(state, rendered) == rendered
updaterArgument(state, rendered) == state

\* a key event delivered to the controller's useInput listener
NavKey(key) ==
    /\ navInputActive(isActive, navProps.allowTestInput, nodeEnv)
    /\ InIndexRange(navHandleIndex(key, selectedIndex, itemCount))
    /\ selectedIndex' = navHandleIndex(key, selectedIndex, itemCount)
    /\ fired' = navHandleFired(key, updaterArgument(selectedIndex, renderedIndex), navProps)
    /\ UNCHANGED <<uiVars, harnessVars>>
    /\ UNCHANGED consumerVars
    /\ lastOp' = <<"key", KeyName(key)>>
    /\ UNCHANGED <<renderedIndex, itemCount, isActive, navProps, countChanged>>
    /\ UNCHANGED <<envVars, cacheVars, fetchVars>>

\* the re-render React makes after a state update: the closures of the new
\* render read the state as it is now
NavCommit ==
    /\ renderedIndex # selectedIndex
    /\ renderedIndex' = selectedIndex
    /\ UNCHANGED <<selectedIndex, itemCount, isActive, navProps, countChanged>>
    /\ UNCHANGED <<uiVars, harnessVars>>
    /\ UNCHANGED consumerVars
    /\ lastOp' = <<"commit", "nav">>
    /\ fired' = {}
    /\ UNCHANGED <<envVars, cacheVars, fetchVars>>

\* a re-render with new props, followed by the reset effect; fired records the
\* index the effect's updater was given
NavRender(n, a) ==
    /\ <<n, a>> # <<itemCount, isActive>>
    /\ itemCount' = n
    /\ isActive' = a
    /\ selectedIndex' = resetEffect(selectedIndex, n, a)
    /\ renderedIndex' = selectedIndex'
    /\ countChanged' = (countChanged \/ n # itemCount)
    /\ UNCHANGED <<uiVars, harnessVars>>
    /\ UNCHANGED consumerVars
    /\ lastOp' = <<"render", "nav">>
    /\ fired' = IF a THEN {Fired("nav", "resetEffect", selectedIndex)} ELSE {}
    /\ UNCHANGED <<navProps, envVars, cacheVars, fetchVars>>

\* unmount, then a fresh mount: useState(0), then the effect
NavMount(n, a, props) ==
    /\ itemCount' = n
    /\ isActive' = a
    /\ navProps' = props
    /\ selectedIndex' = resetEffect(0, n, a)
    /\ renderedIndex' = selectedIndex'
    /\ countChanged' = FALSE
    /\ UNCHANGED <<uiVars, harnessVars>>
    /\ UNCHANGED consumerVars
    /\ lastOp' = <<"mount", "nav">>
    /\ fired' = {}
    /\ UNCHANGED <<envVars, cacheVars, fetchVars>>

NavPropsSet == [allowTestInput : BOOLEAN, onSelect : BOOLEAN, onQuit : BOOLEAN]

(***************************************************************************)
(* ResourceCacheProvider                                                   *)
(***************************************************************************)
CACHE_TTL == 300000

CacheKeys == {"ec2-resources", "s3-resources"}

EmptyCache == [k \in CacheKeys |-> Null]

Entry(d, t, g) == [data |-> d, timestamp |-> t, gen |-> g]

\* now - entry.timestamp > CACHE_TTL
expiredNever(entry, t) == FALSE
expiredAtTTL(entry, t) == t - entry.timestamp >= CACHE_TTL
expiredWrongUnit(entry, t) == t - entry.timestamp > CACHE_TTL \div 1000
expired(entry, t) == t - entry.timestamp > CACHE_TTL

\* getCache(key) of a context value whose closure holds the map c: the value returned
getCache(c, key, t) ==
    IF c[key] = Null THEN Null
    ELSE IF expired(Val(c[key]), t) THEN Null
    ELSE Some(Val(c[key]).data)

\* getCacheAge(key): the value returned
getCacheAge(c, key, t) ==
    IF c[key] = Null THEN Null
    ELSE IF expired(Val(c[key]), t) THEN Null
    ELSE Some(t - Val(c[key]).timestamp)

\* hasCache(key): the value returned
hasCache(c, key, t) ==
    IF c[key] = Null THEN FALSE
    ELSE IF expired(Val(c[key]), t) THEN FALSE
    ELSE TRUE

\* what a closure over the map c contributes to a later setCache(key, ..) made
\* through it: new Map(c).set(key, entry) keeps c's entries of the other keys
closureMap(c, key) == [c EXCEPT ![key] = Null]

\* reading key through a closure over the map c finds an expired entry
readsExpired(c, key, t) == c[key] # Null /\ expired(Val(c[key]), t)

\* the map a reader hands to setCache(newCache) when it finds the entry expired
\* (cur is the provider's state, c the map in the reader's closure)
pruneOnRead(cur, c, key, t) ==
    IF readsExpired(c, key, t) THEN [c EXCEPT ![key] = Null] ELSE cur

\* setCache(key, data) of a context value whose closure holds the map c
setCacheKeepsOld(c, key, d, t, g) == IF c[key] = Null THEN [c EXCEPT ![key] = Some(Entry(d, t, g))] ELSE c
setCacheDataUnstamped(c, key, d, t, g) == [c EXCEPT ![key] = Some(Entry(d, 0, g))]
setCacheData(c, key, d, t, g) == [c EXCEPT ![key] = Some(Entry(d, t, g))]

\* clearCache(): the provider's new state
clearCacheKeepsAll(c) == c
clearCache(c) == EmptyCache

ClearCache ==
    /\ clearCount < MaxClears
    /\ cache' = clearCache(cache)
    /\ clearCount' = clearCount + 1
    /\ clearedKeys' = {k \in CacheKeys : cache[k] # Null}
    /\ UNCHANGED <<uiVars, harnessVars>>
    /\ UNCHANGED consumerVars
    /\ lastOp' = <<"clearCache", "provider">>
    /\ fired' = {}
    /\ UNCHANGED <<envVars, navVars, fetchVars>>

\* Date.now() advances between two events
TickSteps == {1, CACHE_TTL - 1}

Tick(d) ==
    /\ ticks < MaxTicks
    /\ now' = now + d
    /\ ticks' = ticks + 1
    /\ UNCHANGED <<uiVars, harnessVars>>
    /\ UNCHANGED consumerVars
    /\ lastOp' = <<"tick", "clock">>
    /\ fired' = {}
    /\ UNCHANGED <<nodeEnv, backendEnv, navVars, cacheVars, fetchVars>>

\* a direct consumer of useResourceCache() re-renders after the provider's state
\* changed: the context value it now holds closes over the current map
CtxRender ==
    /\ ctxCache # cache
    /\ ctxCache' = cache
    /\ UNCHANGED <<envVars, navVars, cacheVars, fetchVars, uiVars, harnessVars>>
    /\ lastOp' = <<"render", "consumer">>
    /\ fired' = {}

\* the consumer calls setCache(key, d) of the context value it holds
CtxSetCache(key, d) ==
    /\ cache' = setCacheData(ctxCache, key, d, now, clearCount)
    /\ UNCHANGED <<clearCount, clearedKeys, consumerVars>>
    /\ UNCHANGED <<envVars, navVars, fetchVars, uiVars, harnessVars>>
    /\ lastOp' = <<"setCache", key>>
    /\ fired' = {}

\* the consumer calls getCache(key) of the context value it holds
CtxGetCache(key) ==
    /\ cache' = pruneOnRead(cache, ctxCache, key, now)
    /\ UNCHANGED <<clearCount, clearedKeys, consumerVars>>
    /\ UNCHANGED <<envVars, navVars, fetchVars, uiVars, harnessVars>>
    /\ lastOp' = <<"getCache", key>>
    /\ fired' = IF getCache(ctxCache, key, now) # Null
                THEN {Fired("consumer", "hit", Len(Val(getCache(ctxCache, key, now))))}
                ELSE {Fired("consumer", "null", 0)}

\* the consumer calls hasCache(key) of the context value it holds
CtxHasCache(key) ==
    /\ cache' = pruneOnRead(cache, ctxCache, key, now)
    /\ UNCHANGED <<clearCount, clearedKeys, consumerVars>>
    /\ UNCHANGED <<envVars, navVars, fetchVars, uiVars, harnessVars>>
    /\ lastOp' = <<"hasCache", key>>
    /\ fired' = IF hasCache(ctxCache, key, now)
                THEN {Fired("consumer", "true", 0)}
                ELSE {Fired("consumer", "false", 0)}

\* the consumer calls getCacheAge(key) of the context value it holds
CtxGetCacheAge(key) ==
    /\ cache' = pruneOnRead(cache, ctxCache, key, now)
    /\ UNCHANGED <<clearCount, clearedKeys, consumerVars>>
    /\ UNCHANGED <<envVars, navVars, fetchVars, uiVars, harnessVars>>
    /\ lastOp' = <<"getCacheAge", key>>
    /\ fired' = IF getCacheAge(ctxCache, key, now) # Null
                THEN {Fired("consumer", "age", Val(getCacheAge(ctxCache, key, now)))}
                ELSE {Fired("consumer", "null", 0)}

(***************************************************************************)
(* Backend selection                                                       *)
(***************************************************************************)
\* values of process.env['A3S_BACKEND']; "unset" stands for the absent variable
BackendEnvs == {"unset", "", "sdk", "cli", "auto", "SDK", "Cli", "invalid", "api"}

\* String.prototype.toLowerCase on the values above
toLowerCase(str) ==
    CASE str = "SDK" -> "sdk"
      [] str = "Cli" -> "cli"
      [] OTHER -> str

\* ProviderFactory.getBackendType(): Some(type), or Null when it throws
\* (a variant that falls back to auto for an unknown value)
getBackendTypeLenient(env) ==
    IF env \in {"unset", ""} THEN Some("auto")
    ELSE IF toLowerCase(env) \notin {"sdk", "cli", "auto"} THEN Some("auto")
    ELSE Some(toLowerCase(env))
getBackendType(env) ==
    IF env \in {"unset", ""} THEN Some("auto")
    ELSE IF toLowerCase(env) \notin {"sdk", "cli", "auto"} THEN Null
    ELSE Some(toLowerCase(env))

\* ProviderFactory.create(): Some(variant), or Null when it throws
\* (a variant in which auto prefers the CLI provider)
ProviderFactoryCreateAutoCli(env) ==
    IF getBackendType(env) = Null THEN Null
    ELSE IF Val(getBackendType(env)) = "sdk" THEN Some("SdkProvider")
    ELSE Some("CliProvider")
ProviderFactoryCreate(env) ==
    IF getBackendType(env) = Null THEN Null
    ELSE IF Val(getBackendType(env)) = "sdk" THEN Some("SdkProvider")
    ELSE IF Val(getBackendType(env)) = "cli" THEN Some("CliProvider")
    ELSE Some("SdkProvider")

InvalidBackendMessage == "Invalid A3S_BACKEND"

\* createProvider(): resolves to ProviderFactory.create(), rejects when it throws
createProvider(env) == ProviderFactoryCreate(env)

(***************************************************************************)
(* useResources                                                            *)
(***************************************************************************)
Hooks == {"h1", "h2"}

ResourceTypes == {"ec2", "s3"}

\* what provider.listEC2() can resolve to, and what the backend can throw
Payloads == {<<>>, <<"i-1">>}
Thrown == {[isError |-> TRUE, message |-> "Network error"],
           [isError |-> FALSE, message |-> "a thrown string"]}

\* new NotImplementedYet(method): super(`${method} is not implemented yet`)
NotImplementedYet(method) ==
    [isError |-> TRUE, message |-> method \o " is not implemented yet"]

\* the errors a Provider's listEC2() can reject with, by kind: transport (the
\* aws process cannot be started), auth (the service refuses the credentials),
\* parse (JSON.parse of the output), unimplemented; and a thrown non-Error
BackendErrors ==
    Thrown \cup {[isError |-> TRUE, message |-> "spawn aws ENOENT"],
                 [isError |-> TRUE, message |-> "AuthFailure"],
                 [isError |-> TRUE, message |-> "Unexpected token < in JSON"],
                 NotImplementedYet("listEC2")}

\* const cacheKey = `${resourceType}-resources`
cacheKey(rt) == rt \o "-resources"

\* err instanceof Error ? err.message : 'Unknown error occurred'
\* (a variant that reports every failure with the generic message)
errorMessageGeneric(err) == "Unknown error occurred"
errorMessage(err) == IF err.isError THEN err.message ELSE "Unknown error occurred"

Unmounted ==
    [mounted |-> FALSE, resourceType |-> "none", data |-> <<>>, loading |-> FALSE,
     error |-> Null, fromCache |-> FALSE, cacheAge |-> Null, ctx |-> Null]

RemoveAt(seq, i) == SubSeq(seq, 1, i - 1) \o SubSeq(seq, i + 1, Len(seq))

\* the category a hook fetches for: only EC2 currently
supportedAny(rt) == TRUE
supported(rt) == rt = "ec2"

\* fetchData finds usable cached data: cacheContext && getCache(cacheKey) truthy
cacheHit(ctx, rt, t) == ctx # Null /\ getCache(Val(ctx), cacheKey(rt), t) # Null

\* state of the hook after the synchronous part of fetchData (the effect of a
\* mount or of a resourceType change); ctx is the cache context of this render
fetchDataState(h0, rt, ctx, t) ==
    IF ~supported(rt)
    THEN [h0 EXCEPT !.data = <<>>, !.loading = FALSE, !.error = Null,
                    !.fromCache = FALSE, !.cacheAge = Null]
    ELSE IF cacheHit(ctx, rt, t)
    THEN [h0 EXCEPT !.data = Val(getCache(Val(ctx), cacheKey(rt), t)),
                    !.fromCache = TRUE,
                    !.cacheAge = getCacheAge(Val(ctx), cacheKey(rt), t),
                    !.error = Null, !.loading = FALSE]
    ELSE [h0 EXCEPT !.loading = TRUE, !.error = Null, !.fromCache = FALSE,
                    !.cacheAge = Null]

\* fetchData goes on to the backend
fetchDataCallsBackend(rt, ctx, t) == supported(rt) /\ ~cacheHit(ctx, rt, t)

\* a fetch in flight: the consumer, the closure of the render that started it,
\* and (history) whether the consumer showed an error and how many clearCache()
\* calls had been made when it was started
Fetch(h, kind, rt, ctx) ==
    [hook |-> h, kind |-> kind, stage |-> "provider", key |-> cacheKey(rt),
     ctx |-> IF ctx = Null THEN Null ELSE Some(closureMap(Val(ctx), cacheKey(rt))),
     afterError |-> hook[h].error # Null, clears |-> clearCount]

\* the effect of a mount or of a resourceType change: fetchData(); ctx is the
\* cache context of this render (Null outside a provider)
RunFetchData(h, h0, rt, ctx) ==
    /\ fetchDataCallsBackend(rt, ctx, now) => Len(pending) < MaxPending
    /\ hook' = [hook EXCEPT ![h] =
                   [fetchDataState(h0, rt, ctx, now) EXCEPT
                       !.ctx = IF ctx = Null THEN Null
                               ELSE Some(closureMap(Val(ctx), cacheKey(rt)))]]
    /\ cache' = IF supported(rt) /\ ctx # Null
                THEN pruneOnRead(cache, Val(ctx), cacheKey(rt), now)
                ELSE cache
    /\ pending' = IF fetchDataCallsBackend(rt, ctx, now)
                  THEN Append(pending, Fetch(h, "load", rt, ctx))
                  ELSE pending
    /\ UNCHANGED <<uiVars, harnessVars>>
    /\ UNCHANGED consumerVars
    /\ lastOp' = <<"load", h>>
    /\ fired' = IF supported(rt) /\ ctx # Null /\ readsExpired(Val(ctx), cacheKey(rt), now)
                THEN {Fired("provider", "pruned", 0)}
                ELSE {}
    /\ UNCHANGED <<clearCount, clearedKeys, envVars, navVars>>

\* first render of useResources(rt) under a ResourceCacheProvider (withCache)
\* or outside of one
Mount(h, rt, withCache) ==
    /\ ~hook[h].mounted
    /\ LET ctx == IF withCache THEN Some(cache) ELSE Null
       IN RunFetchData(h, [Unmounted EXCEPT !.mounted = TRUE, !.resourceType = rt,
                                            !.ctx = ctx], rt, ctx)

\* a re-render with another resourceType; the closures of this render see the
\* provider's current map
SetResourceType(h, rt) ==
    /\ hook[h].mounted
    /\ rt # hook[h].resourceType
    /\ LET ctx == IF hook[h].ctx # Null THEN Some(cache) ELSE Null
       IN RunFetchData(h, [hook[h] EXCEPT !.resourceType = rt, !.ctx = ctx], rt, ctx)

\* the consumer unmounts: its state is dropped, its fetches stay in flight
Unmount(h) ==
    /\ hook[h].mounted
    /\ hook' = [hook EXCEPT ![h] = Unmounted]
    /\ UNCHANGED <<uiVars, harnessVars>>
    /\ UNCHANGED consumerVars
    /\ lastOp' = <<"unmount", h>>
    /\ fired' = {}
    /\ UNCHANGED <<pending, cacheVars, envVars, navVars>>

\* refresh(): the callback memoized at the last resourceType change
Refresh(h) ==
    /\ hook[h].mounted
    /\ UNCHANGED <<uiVars, harnessVars>>
    /\ UNCHANGED consumerVars
    /\ lastOp' = <<"refresh", h>>
    /\ fired' = {}
    /\ IF ~supported(hook[h].resourceType)
       THEN UNCHANGED <<hook, pending>>
       ELSE /\ Len(pending) < MaxPending
            /\ hook' = [hook EXCEPT ![h].loading = TRUE, ![h].error = Null,
                                    ![h].fromCache = FALSE, ![h].cacheAge = Null]
            /\ pending' = Append(pending,
                                 Fetch(h, "refresh", hook[h].resourceType, hook[h].ctx))
    /\ UNCHANGED <<cacheVars, envVars, navVars>>

\* (history) how the continuation of a fetch is recorded in fired
FetchName(f) == IF f.afterError THEN f.kind \o "AfterError" ELSE f.kind

\* createProvider() resolved: provider.listEC2() is invoked
ProviderResolved(i) ==
    /\ i \in 1..Len(pending)
    /\ pending[i].stage = "provider"
    /\ createProvider(backendEnv) # Null
    /\ pending' = [pending EXCEPT ![i].stage = "listEC2"]
    /\ UNCHANGED <<uiVars, harnessVars>>
    /\ UNCHANGED consumerVars
    /\ lastOp' = <<"listEC2", pending[i].hook>>
    /\ fired' = {Fired("ProviderFactory", Val(createProvider(backendEnv)), 0)}
    /\ UNCHANGED <<hook, cacheVars, envVars, navVars>>

\* the catch and finally blocks: setError(errorMessage); setData([]); setLoading(false)
\* (state updates of an unmounted component are dropped)
failedStateKeepsData(h0, err) ==
    IF h0.mounted
    THEN [h0 EXCEPT !.error = Some(errorMessage(err)), !.loading = FALSE]
    ELSE h0
failedStateStillLoading(h0, err) ==
    IF h0.mounted
    THEN [h0 EXCEPT !.error = Some(errorMessage(err)), !.data = <<>>]
    ELSE h0
failedState(h0, err) ==
    IF h0.mounted
    THEN [h0 EXCEPT !.error = Some(errorMessage(err)), !.data = <<>>, !.loading = FALSE]
    ELSE h0

\* after listEC2 resolved: setData; setFromCache(false); setCacheAge(0) when a
\* cache context exists; finally setLoading(false)
succeededStateStillLoading(h0, f, instances) ==
    IF h0.mounted
    THEN [h0 EXCEPT !.data = instances, !.fromCache = FALSE,
                    !.cacheAge = IF f.ctx # Null THEN Some(0) ELSE @]
    ELSE h0
succeededState(h0, f, instances) ==
    IF h0.mounted
    THEN [h0 EXCEPT !.data = instances, !.fromCache = FALSE,
                    !.cacheAge = IF f.ctx # Null THEN Some(0) ELSE @,
                    !.loading = FALSE]
    ELSE h0

\* the provider's map after the fetch f stored its result through its closure
storeSkipped(c, f, instances, t, g) == c
storeUnlessAbandoned(c, f, instances, t, g) ==
    IF f.ctx # Null /\ f.key = cacheKey(hook[f.hook].resourceType)
    THEN setCacheData(Val(f.ctx), f.key, instances, t, g)
    ELSE c
store(c, f, instances, t, g) ==
    IF f.ctx # Null THEN setCacheData(Val(f.ctx), f.key, instances, t, g) ELSE c

\* createProvider() rejected (ProviderFactory.create threw)
ProviderRejected(i) ==
    /\ i \in 1..Len(pending)
    /\ pending[i].stage = "provider"
    /\ createProvider(backendEnv) = Null
    /\ hook' = [hook EXCEPT ![pending[i].hook] =
                   failedState(@, [isError |-> TRUE, message |-> InvalidBackendMessage])]
    /\ pending' = RemoveAt(pending, i)
    /\ UNCHANGED <<uiVars, harnessVars>>
    /\ UNCHANGED consumerVars
    /\ lastOp' = <<"fetchFailed", pending[i].hook>>
    /\ fired' = {Fired("ProviderFactory", "Error", 0)}
    /\ UNCHANGED <<cacheVars, envVars, navVars>>

\* provider.listEC2() resolved with instances; fired records (history) which
\* fetch it was
ListResolved(i, instances) ==
    /\ i \in 1..Len(pending)
    /\ pending[i].stage = "listEC2"
    /\ hook' = [hook EXCEPT ![pending[i].hook] = succeededState(@, pending[i], instances)]
    /\ cache' = store(cache, pending[i], instances, now, clearCount)
    /\ pending' = RemoveAt(pending, i)
    /\ UNCHANGED <<uiVars, harnessVars>>
    /\ UNCHANGED consumerVars
    /\ lastOp' = <<"fetchSucceeded", pending[i].hook>>
    /\ fired' = {Fired(pending[i].hook, FetchName(pending[i]), pending[i].clears)}
    /\ UNCHANGED <<clearCount, clearedKeys, envVars, navVars>>

\* provider.listEC2() rejected with err
\* (a variant that issues the request again)
ListRejectedRetries(i, err) ==
    /\ i \in 1..Len(pending)
    /\ pending[i].stage = "listEC2"
    /\ hook' = [hook EXCEPT ![pending[i].hook] = failedState(@, err)]
    /\ pending' = Append(RemoveAt(pending, i), [pending[i] EXCEPT !.stage = "provider"])
    /\ UNCHANGED <<uiVars, harnessVars>>
    /\ UNCHANGED consumerVars
    /\ lastOp' = <<"fetchFailed", pending[i].hook>>
    /\ fired' = {}
    /\ UNCHANGED <<cacheVars, envVars, navVars>>
ListRejected(i, err) ==
    /\ i \in 1..Len(pending)
    /\ pending[i].stage = "listEC2"
    /\ hook' = [hook EXCEPT ![pending[i].hook] = failedState(@, err)]
    /\ pending' = RemoveAt(pending, i)
    /\ UNCHANGED <<uiVars, harnessVars>>
    /\ UNCHANGED consumerVars
    /\ lastOp' = <<"fetchFailed", pending[i].hook>>
    /\ fired' = {}
    /\ UNCHANGED <<cacheVars, envVars, navVars>>

(***************************************************************************)
(* App, Home, ResourceList, ConfirmationDialog: the input listeners         *)
(***************************************************************************)
Screens == {"home", "ec2", "s3", "lambda", "rds"}

\* Home: const services = [EC2, S3, Lambda, RDS]
services == <<"EC2", "S3", "Lambda", "RDS">>

\* App.handleServiceSelect: serviceMap[service]
serviceMap(service) ==
    CASE service = "EC2" -> "ec2"
      [] service = "S3" -> "s3"
      [] service = "Lambda" -> "lambda"
      [] service = "RDS" -> "rds"

\* the arguments Home and ResourceList pass to useNavigation
HomeNavProps == [allowTestInput |-> TRUE, onSelect |-> TRUE, onQuit |-> TRUE]
ListNavProps == [allowTestInput |-> FALSE, onSelect |-> FALSE, onQuit |-> TRUE]

\* Home: currentScreen !== 'home' ? false : true
homeActive(screen) == screen = "home"

\* ResourceList: currentScreen === resourceType && !loading && !error
listActive(screen, rt, loading, error) == screen = rt /\ ~loading /\ error = Null

\* the consumer of useResources in App
AppHook == "h1"

Listeners == {"homeNav", "homeC", "dialog", "listNav", "listView"}

\* the view rendered by App
view(screen, quitted) ==
    IF quitted THEN "none" ELSE IF screen = "home" THEN "home" ELSE "list"

\* the component calling useInput for listener l is rendered
listenerMounted(l) ==
    CASE l \in {"homeNav", "homeC"} -> view(currentScreen, shouldQuit) = "home"
      [] l = "dialog" -> view(currentScreen, shouldQuit) = "home" /\ showConfirmation
      [] l \in {"listNav", "listView"} -> view(currentScreen, shouldQuit) = "list"

\* the isActive option listener l hands to useInput
listenerOption(l) ==
    CASE l \in {"homeNav", "listNav"} ->
             navInputActive(isActive, navProps.allowTestInput, nodeEnv)
      [] l = "homeC" -> homeActive(currentScreen) /\ nodeEnv # "test"
      [] l = "dialog" -> nodeEnv # "test"
      [] l = "listView" ->
             /\ listActive(currentScreen, currentScreen,
                           hook[AppHook].loading, hook[AppHook].error)
             /\ nodeEnv # "test"

\* the UI runtime calls, on a key event, the handler of every rendered listener
\* whose isActive option is true
delivered == {l \in Listeners : listenerMounted(l) /\ listenerOption(l)}

\* what the handler of useNavigation calls for a key, as listener l
navCalls(l, key) ==
    {[f EXCEPT !.by = l] : f \in navHandleFired(key, selectedIndex, navProps)}
    \cup (IF key.upArrow \/ key.downArrow \/ key.input \in {"k", "j"}
          THEN {Fired(l, "setSelectedIndex", navHandleIndex(key, selectedIndex, itemCount))}
          ELSE {})

\* (a variant that misses the upper-case key)
homeCCallsLowerOnly(key) ==
    IF key.input = "c" THEN {Fired("homeC", "setShowConfirmation", 1)} ELSE {}

\* Home's own handler: cacheContext && (input === 'C' || input === 'c')
homeCCalls(key) ==
    IF key.input \in {"C", "c"} THEN {Fired("homeC", "setShowConfirmation", 1)} ELSE {}

\* (a variant in which Enter confirms)
dialogCallsEnterConfirms(key) ==
    IF key.input \in {"y", "Y"} \/ key.return THEN {Fired("dialog", "onConfirm", 0)}
    ELSE IF key.input \in {"n", "N"} \/ key.escape THEN {Fired("dialog", "onCancel", 0)}
    ELSE {}

\* ConfirmationDialog's handler
dialogCalls(key) ==
    IF key.input \in {"y", "Y"} THEN {Fired("dialog", "onConfirm", 0)}
    ELSE IF key.input \in {"n", "N"} THEN {Fired("dialog", "onCancel", 0)}
    ELSE IF key.escape \/ key.return THEN {Fired("dialog", "onCancel", 0)}
    ELSE {}

\* ResourceList's own handler
listViewCalls(key, error) ==
    IF key.leftArrow \/ key.escape THEN {Fired("listView", "onBack", 0)}
    ELSE IF key.input = "r" /\ error # Null THEN {Fired("listView", "onRefresh", 0)}
    ELSE {}

\* what the handler of listener l calls for a key
listenerCalls(l, key) ==
    CASE l \in {"homeNav", "listNav"} -> navCalls(l, key)
      [] l = "homeC" -> homeCCalls(key)
      [] l = "dialog" -> dialogCalls(key)
      [] l = "listView" -> listViewCalls(key, hook[AppHook].error)

\* the controller as the rendered view holds it
NavNow ==
    [view |-> view(currentScreen, shouldQuit), selectedIndex |-> selectedIndex,
     itemCount |-> itemCount, isActive |-> isActive, navProps |-> navProps,
     countChanged |-> countChanged]

\* useNavigation after App rendered view v, which passes it itemCount n and
\* isActive a: mounted afresh when the view changed, re-rendered otherwise; the
\* reset effect runs when n or a changed
navAfterRender(prev, v, n, a) ==
    IF v = "none"
    THEN [view |-> v, selectedIndex |-> 0, itemCount |-> 0, isActive |-> FALSE,
          navProps |-> ListNavProps, countChanged |-> FALSE]
    ELSE IF v # prev.view
    THEN [view |-> v, selectedIndex |-> resetEffect(0, n, a), itemCount |-> n,
          isActive |-> a,
          navProps |-> IF v = "home" THEN HomeNavProps ELSE ListNavProps,
          countChanged |-> FALSE]
    ELSE [prev EXCEPT
             !.selectedIndex = IF <<n, a>> # <<prev.itemCount, prev.isActive>>
                               THEN resetEffect(prev.selectedIndex, n, a)
                               ELSE prev.selectedIndex,
             !.itemCount = n,
             !.isActive = a,
             !.countChanged = prev.countChanged \/ n # prev.itemCount]

\* what view v passes to useNavigation when App's hook is in state hk
viewItemCount(v, hk) == IF v = "home" THEN Len(services) ELSE Len(hk.data)
viewActive(v, screen, hk) ==
    IF v = "home" THEN homeActive(screen)
    ELSE listActive(screen, screen, hk.loading, hk.error)

\* App renders with the hook in state hk1, then (after the effects) in state hk2
rendered(prev, screen, quitted, hk1, hk2) ==
    CHOOSE r \in
        {navAfterRender(r1, view(screen, quitted),
                        viewItemCount(view(screen, quitted), hk2),
                        viewActive(view(screen, quitted), screen, hk2)) :
            r1 \in {navAfterRender(prev, view(screen, quitted),
                                   viewItemCount(view(screen, quitted), hk1),
                                   viewActive(view(screen, quitted), screen, hk1))}} :
        TRUE

SetNav(r) ==
    /\ selectedIndex' = r.selectedIndex
    /\ renderedIndex' = r.selectedIndex
    /\ itemCount' = r.itemCount
    /\ isActive' = r.isActive
    /\ navProps' = r.navProps
    /\ countChanged' = r.countChanged

\* App calls useResources(currentScreen) outside the ResourceCacheProvider: the
\* hook has no cache context
appFetchState(hk, screen) ==
    fetchDataState([hk EXCEPT !.resourceType = screen], screen, Null, now)

\* refresh() of App's hook
appRefreshState(hk) ==
    IF supported(hk.resourceType)
    THEN [hk EXCEPT !.loading = TRUE, !.error = Null, !.fromCache = FALSE,
                    !.cacheAge = Null]
    ELSE hk

\* (a variant that takes the service after the selected one)
scheduledNext(calls) ==
    LET chosen == {f.arg + 2 : f \in {g \in calls : g.cb = "onSelect"}} \cap DOMAIN services
    IN IF chosen = {} THEN <<>>
       ELSE <<serviceMap(services[CHOOSE i \in chosen : TRUE])>>

\* App.handleServiceSelect for the services Home's onSelect wrapper passes on
scheduled(calls) ==
    LET chosen == {f.arg + 1 : f \in {g \in calls : g.cb = "onSelect"}} \cap DOMAIN services
    IN IF chosen = {} THEN <<>>
       ELSE <<serviceMap(services[CHOOSE i \in chosen : TRUE])>>

\* the handlers delivered a key have run and made the calls in calls, leaving
\* the controller at index idx and App's hook in state hk1; App re-renders with
\* the new screen, and the effect of useResources leaves the hook in state hk2
UiHandled(calls, idx, quitted, screen, hk1, hk2, refetch) ==
    /\ InIndexRange(idx)
    /\ Len(timers) + Len(scheduled(calls)) <= MaxTimers
    /\ "onConfirm" \in {f.cb : f \in calls} => clearCount < MaxClears
    /\ refetch => Len(pending) < MaxPending
    /\ timers' = timers \o scheduled(calls)
    /\ shouldQuit' = quitted
    /\ currentScreen' = screen
    /\ showConfirmation' =
          IF view(screen, quitted) # "home" THEN FALSE
          ELSE IF {"onConfirm", "onCancel"} \cap {f.cb : f \in calls} # {} THEN FALSE
          ELSE IF "setShowConfirmation" \in {f.cb : f \in calls} THEN TRUE
          ELSE showConfirmation
    /\ cache' = IF "onConfirm" \in {f.cb : f \in calls} THEN clearCache(cache) ELSE cache
    /\ clearCount' = IF "onConfirm" \in {f.cb : f \in calls}
                     THEN clearCount + 1
                     ELSE clearCount
    /\ clearedKeys' = IF "onConfirm" \in {f.cb : f \in calls}
                      THEN {k \in CacheKeys : cache[k] # Null}
                      ELSE clearedKeys
    /\ hook' = [hook EXCEPT ![AppHook] = hk2]
    /\ pending' = IF refetch
                  THEN Append(pending, Fetch(AppHook, "refresh",
                                             hook[AppHook].resourceType, Null))
                  ELSE pending
    /\ \E r \in {rendered([NavNow EXCEPT !.selectedIndex = idx],
                          screen, quitted, hk1, hk2)} : SetNav(r)

\* a key event: every delivered handler runs, then App re-renders
UiKey(key) ==
    /\ \E calls \in {UNION {listenerCalls(l, key) : l \in delivered}} :
       \E hk1 \in {IF "onRefresh" \in {f.cb : f \in calls}
                   THEN appRefreshState(hook[AppHook])
                   ELSE hook[AppHook]} :
       \E screen \in {IF "onBack" \in {f.cb : f \in calls} THEN "home" ELSE currentScreen} :
       \E hk2 \in {IF screen # currentScreen THEN appFetchState(hk1, screen) ELSE hk1} :
          /\ UiHandled(calls,
                       IF delivered \cap {"homeNav", "listNav"} # {}
                       THEN navHandleIndex(key, selectedIndex, itemCount)
                       ELSE selectedIndex,
                       shouldQuit \/ "onQuit" \in {f.cb : f \in calls},
                       screen, hk1, hk2,
                       /\ "onRefresh" \in {f.cb : f \in calls}
                       /\ supported(hook[AppHook].resourceType))
          /\ fired' = calls \cup {Fired(l, "input", 0) : l \in delivered}
    /\ UNCHANGED <<envVars, harnessVars>>
    /\ UNCHANGED consumerVars
    /\ lastOp' = <<"key", KeyName(key)>>

\* a scheduled setCurrentScreen(screen) runs; App re-renders and the effect of
\* useResources(screen) runs
UiTimer ==
    /\ timers # <<>>
    /\ timers' = Tail(timers)
    /\ currentScreen' = Head(timers)
    /\ fetchDataCallsBackend(Head(timers), Null, now) /\ Head(timers) # currentScreen
          => Len(pending) < MaxPending
    /\ IF Head(timers) = currentScreen
       THEN UNCHANGED <<navVars, hook, pending, showConfirmation>>
       ELSE /\ hook' = [hook EXCEPT ![AppHook] = appFetchState(@, Head(timers))]
            /\ pending' = IF fetchDataCallsBackend(Head(timers), Null, now)
                          THEN Append(pending, Fetch(AppHook, "load", Head(timers), Null))
                          ELSE pending
            /\ showConfirmation' =
                  IF view(Head(timers), shouldQuit) # "home" THEN FALSE
                  ELSE showConfirmation
            /\ \E hk2 \in {appFetchState(hook[AppHook], Head(timers))} :
               \E r \in {rendered(NavNow, Head(timers), shouldQuit, hook[AppHook], hk2)} :
                  SetNav(r)
    /\ UNCHANGED <<shouldQuit, envVars, cacheVars, harnessVars>>
    /\ UNCHANGED consumerVars
    /\ lastOp' = <<"timer", Head(timers)>>
    /\ fired' = {}

\* a fetch of App's hook settles with the hook state hk2; App re-renders
UiSettled(i, state) ==
    /\ \E hk2 \in {state} :
          /\ hook' = [hook EXCEPT ![AppHook] = hk2]
          /\ \E r \in {rendered(NavNow, currentScreen, shouldQuit, hk2, hk2)} : SetNav(r)
    /\ pending' = RemoveAt(pending, i)
    /\ UNCHANGED <<uiVars, envVars, harnessVars>>

UiProviderRejected(i) ==
    /\ i \in 1..Len(pending)
    /\ pending[i].stage = "provider"
    /\ createProvider(backendEnv) = Null
    /\ UiSettled(i, failedState(hook[AppHook],
                                [isError |-> TRUE, message |-> InvalidBackendMessage]))
    /\ UNCHANGED cacheVars
    /\ UNCHANGED consumerVars
    /\ lastOp' = <<"fetchFailed", AppHook>>
    /\ fired' = {Fired("ProviderFactory", "Error", 0)}

UiListResolved(i, instances) ==
    /\ i \in 1..Len(pending)
    /\ pending[i].stage = "listEC2"
    /\ UiSettled(i, succeededState(hook[AppHook], pending[i], instances))
    /\ cache' = store(cache, pending[i], instances, now, clearCount)
    /\ UNCHANGED <<clearCount, clearedKeys>>
    /\ UNCHANGED consumerVars
    /\ lastOp' = <<"fetchSucceeded", AppHook>>
    /\ fired' = {}

\* (fired records, as history, the error listEC2 rejected with)
\* (a variant that falls back to the CLI provider instead of failing)
UiListRejectedFallsBack(i, err) ==
    /\ i \in 1..Len(pending)
    /\ pending[i].stage = "listEC2"
    /\ UNCHANGED <<hook, pending, navVars, uiVars, envVars, harnessVars>>
    /\ UNCHANGED cacheVars
    /\ UNCHANGED consumerVars
    /\ lastOp' = <<"fetchFailed", AppHook>>
    /\ fired' = {Fired("backend", err.message, IF err.isError THEN 1 ELSE 0),
                 Fired("ProviderFactory", "CliProvider", 0)}
UiListRejected(i, err) ==
    /\ i \in 1..Len(pending)
    /\ pending[i].stage = "listEC2"
    /\ UiSettled(i, failedState(hook[AppHook], err))
    /\ UNCHANGED cacheVars
    /\ UNCHANGED consumerVars
    /\ lastOp' = <<"fetchFailed", AppHook>>
    /\ fired' = {Fired("backend", err.message, IF err.isError THEN 1 ELSE 0)}

(***************************************************************************)
(* Keyboard simulation of the integration tests (app.test.tsx)             *)
(***************************************************************************)
\* the listeners that register with the mocked useInput, and the values the
\* isActive option of a registration can have
HarnessListeners == {"L1", "L2", "L3"}
ActiveOptions == {"true", "false", "undefined"}

Handler(id, opt) == [callback |-> id, isActive |-> opt]

\* inputHandlers.filter(handler => handler.options.isActive !== false)
activeHandlers(handlers) == SelectSeq(handlers, LAMBDA h : h.isActive # "false")

\* key.leftArrow || key.escape ? activeHandlers.slice(-1) : activeHandlers.slice(0, 1)
handlerToTriggerAll(active, key) == active
handlerToTrigger(active, key) ==
    IF active = <<>> THEN <<>>
    ELSE IF key.leftArrow \/ key.escape THEN <<active[Len(active)]>>
    ELSE <<active[1]>>

\* the mocked useInput(callback, options): stores the handler unless isActive === false
UseInputMock(id, opt) ==
    /\ Len(inputHandlers) < MaxHandlers
    /\ inputHandlers' = IF opt # "false"
                        THEN Append(inputHandlers, Handler(id, opt))
                        ELSE inputHandlers
    /\ UNCHANGED <<envVars, navVars, cacheVars, fetchVars, uiVars>>
    /\ UNCHANGED consumerVars
    /\ lastOp' = <<"useInput", id>>
    /\ fired' = {}

\* simulateKeyPress(input, key): calls the callback of each handler to trigger
SimulateKeyPress(key) ==
    /\ fired' = {Fired(handlerToTrigger(activeHandlers(inputHandlers), key)[i].callback,
                       "callback", i) :
                    i \in 1..Len(handlerToTrigger(activeHandlers(inputHandlers), key))}
    /\ UNCHANGED <<envVars, navVars, cacheVars, fetchVars, uiVars, harnessVars>>
    /\ UNCHANGED consumerVars
    /\ lastOp' = <<"simulateKeyPress", KeyName(key)>>

\* resetInputHandlers()
ResetInputHandlers ==
    /\ inputHandlers' = <<>>
    /\ UNCHANGED <<envVars, navVars, cacheVars, fetchVars, uiVars>>
    /\ UNCHANGED consumerVars
    /\ lastOp' = <<"resetInputHandlers", "harness">>
    /\ fired' = {}

(***************************************************************************)
(* Specifications                                                          *)
(***************************************************************************)
\* the navigation controller on its own (renderHook(() => useNavigation(..)))
InitNav ==
    /\ nodeEnv \in NodeEnvs
    /\ backendEnv = "unset"
    /\ now = 0
    /\ ticks = 0
    /\ selectedIndex = 0
    /\ renderedIndex = 0
    /\ itemCount \in 0..MaxItems
    /\ isActive \in BOOLEAN
    /\ navProps \in NavPropsSet
    /\ countChanged = FALSE
    /\ cache = EmptyCache
    /\ clearCount = 0
    /\ clearedKeys = {}
    /\ hook = [h \in Hooks |-> Unmounted]
    /\ pending = <<>>
    /\ currentScreen = "home"
    /\ shouldQuit = FALSE
    /\ timers = <<>>
    /\ showConfirmation = FALSE
    /\ inputHandlers = <<>>
    /\ ctxCache = EmptyCache
    /\ lastOp = <<"init", "nav">>
    /\ fired = {}

NextNav ==
    \/ NavMoveUp
    \/ NavCommit
    \/ NavMoveDown
    \/ NavSelect
    \/ NavQuit
    \/ \E key \in Keys : NavKey(key)
    \/ \E n \in 0..MaxItems, a \in BOOLEAN : NavRender(n, a)
    \/ \E n \in 0..MaxItems, a \in BOOLEAN, props \in NavPropsSet : NavMount(n, a, props)

SpecNav == InitNav /\ [][NextNav]_vars

\* consumers of useResources under one ResourceCacheProvider
InitFetch ==
    /\ nodeEnv = "test"
    /\ backendEnv \in {"auto", "invalid"}
    /\ now = 0
    /\ ticks = 0
    /\ selectedIndex = 0
    /\ renderedIndex = 0
    /\ itemCount = 0
    /\ isActive = FALSE
    /\ navProps = [allowTestInput |-> FALSE, onSelect |-> FALSE, onQuit |-> FALSE]
    /\ countChanged = FALSE
    /\ cache = EmptyCache
    /\ clearCount = 0
    /\ clearedKeys = {}
    /\ hook = [h \in Hooks |-> Unmounted]
    /\ pending = <<>>
    /\ currentScreen = "home"
    /\ shouldQuit = FALSE
    /\ timers = <<>>
    /\ showConfirmation = FALSE
    /\ inputHandlers = <<>>
    /\ ctxCache = EmptyCache
    /\ lastOp = <<"init", "provider">>
    /\ fired = {}

NextFetch ==
    \/ \E d \in TickSteps : Tick(d)
    \/ ClearCache
    \/ \E rt \in ResourceTypes : Mount("h1", rt, TRUE)
    \/ \E rt \in ResourceTypes : SetResourceType("h1", rt)
    \/ Unmount("h1")
    \/ Refresh("h1")
    \/ \E i \in 1..MaxPending : ProviderResolved(i)
    \/ \E i \in 1..MaxPending : ProviderRejected(i)
    \/ \E i \in 1..MaxPending, instances \in Payloads : ListResolved(i, instances)
    \/ \E i \in 1..MaxPending, err \in Thrown : ListRejected(i, err)

SpecFetch == InitFetch /\ [][NextFetch]_vars

\* the keyboard simulation on its own: listeners register, keys are simulated
InitHarness ==
    /\ nodeEnv = "test"
    /\ backendEnv = "unset"
    /\ now = 0
    /\ ticks = 0
    /\ selectedIndex = 0
    /\ renderedIndex = 0
    /\ itemCount = 0
    /\ isActive = FALSE
    /\ navProps = [allowTestInput |-> FALSE, onSelect |-> FALSE, onQuit |-> FALSE]
    /\ countChanged = FALSE
    /\ cache = EmptyCache
    /\ clearCount = 0
    /\ clearedKeys = {}
    /\ hook = [h \in Hooks |-> Unmounted]
    /\ pending = <<>>
    /\ currentScreen = "home"
    /\ shouldQuit = FALSE
    /\ timers = <<>>
    /\ showConfirmation = FALSE
    /\ inputHandlers = <<>>
    /\ ctxCache = EmptyCache
    /\ lastOp = <<"init", "harness">>
    /\ fired = {}

NextHarness ==
    \/ \E id \in HarnessListeners, opt \in ActiveOptions : UseInputMock(id, opt)
    \/ \E key \in Keys : SimulateKeyPress(key)
    \/ ResetInputHandlers

SpecHarness == InitHarness /\ [][NextHarness]_vars

\* the application as cli.tsx renders it: <App /> under the UI runtime
InitUI ==
    /\ nodeEnv \in NodeEnvs
    /\ backendEnv \in BackendEnvs
    /\ now = 0
    /\ ticks = 0
    /\ selectedIndex = 0
    /\ renderedIndex = 0
    /\ itemCount = Len(services)
    /\ isActive = TRUE
    /\ navProps = HomeNavProps
    /\ countChanged = FALSE
    /\ cache = EmptyCache
    /\ clearCount = 0
    /\ clearedKeys = {}
    /\ hook = [h \in Hooks |->
                  IF h = AppHook
                  THEN [Unmounted EXCEPT !.mounted = TRUE, !.resourceType = "home"]
                  ELSE Unmounted]
    /\ pending = <<>>
    /\ currentScreen = "home"
    /\ shouldQuit = FALSE
    /\ timers = <<>>
    /\ showConfirmation = FALSE
    /\ inputHandlers = <<>>
    /\ ctxCache = EmptyCache
    /\ lastOp = <<"init", "app">>
    /\ fired = {}

NextUI ==
    \/ \E key \in Keys : UiKey(key)
    \/ UiTimer
    \/ \E i \in 1..MaxPending : ProviderResolved(i)
    \/ \E i \in 1..MaxPending : UiProviderRejected(i)
    \/ \E i \in 1..MaxPending, instances \in Payloads : UiListResolved(i, instances)
    \/ \E i \in 1..MaxPending, err \in BackendErrors : UiListRejected(i, err)

SpecUI == InitUI /\ [][NextUI]_vars

\* two consumers of useResources under one ResourceCacheProvider, within the
\* TTL of whatever they store
InitShared ==
    /\ nodeEnv = "test"
    /\ backendEnv = "auto"
    /\ now = 0
    /\ ticks = 0
    /\ selectedIndex = 0
    /\ renderedIndex = 0
    /\ itemCount = 0
    /\ isActive = FALSE
    /\ navProps = [allowTestInput |-> FALSE, onSelect |-> FALSE, onQuit |-> FALSE]
    /\ countChanged = FALSE
    /\ cache = EmptyCache
    /\ clearCount = 0
    /\ clearedKeys = {}
    /\ hook = [h \in Hooks |-> Unmounted]
    /\ pending = <<>>
    /\ currentScreen = "home"
    /\ shouldQuit = FALSE
    /\ timers = <<>>
    /\ showConfirmation = FALSE
    /\ inputHandlers = <<>>
    /\ ctxCache = EmptyCache
    /\ lastOp = <<"init", "provider">>
    /\ fired = {}

NextShared ==
    \/ Tick(1)
    \/ \E h \in Hooks, rt \in ResourceTypes : Mount(h, rt, TRUE)
    \/ \E h \in Hooks : Unmount(h)
    \/ \E i \in 1..MaxPending : ProviderResolved(i)
    \/ \E i \in 1..MaxPending, instances \in Payloads : ListResolved(i, instances)
    \/ \E i \in 1..MaxPending, err \in Thrown : ListRejected(i, err)

SpecShared == InitShared /\ [][NextShared]_vars

\* a component that uses the context value of ResourceCacheProvider directly
InitCache ==
    /\ nodeEnv = "test"
    /\ backendEnv = "auto"
    /\ now = 0
    /\ ticks = 0
    /\ selectedIndex = 0
    /\ renderedIndex = 0
    /\ itemCount = 0
    /\ isActive = FALSE
    /\ navProps = [allowTestInput |-> FALSE, onSelect |-> FALSE, onQuit |-> FALSE]
    /\ countChanged = FALSE
    /\ cache = EmptyCache
    /\ clearCount = 0
    /\ clearedKeys = {}
    /\ ctxCache = EmptyCache
    /\ hook = [h \in Hooks |-> Unmounted]
    /\ pending = <<>>
    /\ currentScreen = "home"
    /\ shouldQuit = FALSE
    /\ timers = <<>>
    /\ showConfirmation = FALSE
    /\ inputHandlers = <<>>
    /\ lastOp = <<"init", "consumer">>
    /\ fired = {}

NextCache ==
    \/ \E d \in TickSteps : Tick(d)
    \/ ClearCache
    \/ CtxRender
    \/ \E key \in CacheKeys, d \in Payloads : CtxSetCache(key, d)
    \/ \E key \in CacheKeys : CtxGetCache(key)
    \/ \E key \in CacheKeys : CtxHasCache(key)
    \/ \E key \in CacheKeys : CtxGetCacheAge(key)

SpecCache == InitCache /\ [][NextCache]_vars

(***************************************************************************)
(* Properties                                                              *)
(***************************************************************************)
Ec2Key == cacheKey("ec2")

\* the step is the effect of a mount or of a resourceType change of consumer h
IsLoad(h) == lastOp' = <<"load", h>>

\* the fetch of kind k started by this step for consumer h, appended to pending
StartsOneFetch(h, k) ==
    /\ Len(pending') = Len(pending) + 1
    /\ SubSeq(pending', 1, Len(pending)) = pending
    /\ pending'[Len(pending')].hook = h
    /\ pending'[Len(pending')].kind = k
    /\ pending'[Len(pending')].stage = "provider"

StartsNoFetch == pending' = pending

\* C1: for every itemCount >= 1 that has not changed since the controller was
\* mounted at index 0, selectedIndex stays in [0, itemCount) whatever moves were
\* made; with itemCount = 1 it stays 0.
C1_IndexInRange ==
    (itemCount >= 1 /\ ~countChanged) =>
        (selectedIndex >= 0 /\ selectedIndex < itemCount)

\* moveUp from index 0 has just wrapped to the last item of the longest list
C1_Witness ==
    /\ ~countChanged
    /\ itemCount = MaxItems
    /\ selectedIndex = itemCount - 1
    /\ lastOp = <<"moveUp", "nav">>

\* C2: wraparound law. For itemCount >= 2 and an in-range index, moveDown from
\* itemCount-1 yields 0 and otherwise adds 1; moveUp from 0 yields itemCount-1
\* and otherwise subtracts 1 (for the returned functions and for the keys).
C2_Wraparound ==
    [][(itemCount >= 2 /\ selectedIndex \in 0..(itemCount - 1)) =>
        /\ lastOp' \in {<<"moveDown", "nav">>, <<"key", "downArrow">>, <<"key", "j">>} =>
              selectedIndex' = (IF selectedIndex = itemCount - 1 THEN 0
                                ELSE selectedIndex + 1)
        /\ lastOp' \in {<<"moveUp", "nav">>, <<"key", "upArrow">>, <<"key", "k">>} =>
              selectedIndex' = (IF selectedIndex = 0 THEN itemCount - 1
                                ELSE selectedIndex - 1)]_vars

\* moveDown has just wrapped from the last item to index 0
C2_Witness ==
    /\ lastOp = <<"moveDown", "nav">>
    /\ itemCount >= 2
    /\ ~countChanged
    /\ selectedIndex = 0

\* C3: a load for ec2 that finds an entry younger than the TTL returns the
\* entry's payload with fromCache=true, loading=false, error=null and
\* age = now - fetchedAt, leaves the entry as it is and invokes no backend.
C3_FreshEntryIsServed ==
    [][\A h \in Hooks :
        (/\ IsLoad(h)
         /\ hook'[h].resourceType = "ec2"
         /\ cache[Ec2Key] # Null
         /\ now - Val(cache[Ec2Key]).timestamp < CACHE_TTL) =>
            /\ hook'[h].data = Val(cache[Ec2Key]).data
            /\ hook'[h].fromCache
            /\ ~hook'[h].loading
            /\ hook'[h].error = Null
            /\ hook'[h].cacheAge = Some(now - Val(cache[Ec2Key]).timestamp)
            /\ cache' = cache
            /\ StartsNoFetch]_vars

\* a load was just served an entry one millisecond younger than the TTL
C3_Witness ==
    /\ lastOp = <<"load", "h1">>
    /\ hook["h1"].fromCache
    /\ hook["h1"].cacheAge = Some(CACHE_TTL - 1)
    /\ hook["h1"].data # <<>>

\* C4: a load for ec2 that finds no entry, or only one older than the TTL, is a
\* miss: loading becomes true, the error is cleared and exactly one backend
\* request (one createProvider() call, not yet resolved) is started by the call.
C4_MissStartsOneFetch ==
    [][\A h \in Hooks :
        (/\ IsLoad(h)
         /\ hook'[h].resourceType = "ec2"
         /\ \/ cache[Ec2Key] = Null
            \/ now - Val(cache[Ec2Key]).timestamp > CACHE_TTL) =>
            /\ hook'[h].loading
            /\ hook'[h].error = Null
            /\ StartsOneFetch(h, "load")]_vars

\* a load has just missed on an entry older than the TTL, which it pruned
C4_Witness ==
    /\ lastOp = <<"load", "h1">>
    /\ hook["h1"].loading
    /\ Fired("provider", "pruned", 0) \in fired
    /\ cache[Ec2Key] = Null
    /\ pending # <<>>

\* C5: refresh for ec2 always starts a backend request, whatever entry the cache
\* holds for the key, and a refresh that succeeds stores the new payload under
\* the key with the time of the write.
C5_RefreshAlwaysFetches ==
    [][\A h \in Hooks :
        /\ (lastOp' = <<"refresh", h>> /\ hook[h].resourceType = "ec2") =>
              /\ StartsOneFetch(h, "refresh")
              /\ hook'[h].loading
        /\ lastOp' = <<"fetchSucceeded", h>> =>
              \A i \in 1..Len(pending) :
                  (pending' = RemoveAt(pending, i) /\ pending[i].kind = "refresh") =>
                      /\ cache'[Ec2Key] # Null
                      /\ Val(cache'[Ec2Key]).timestamp = now
                      /\ Val(cache'[Ec2Key]).gen = clearCount
                      /\ hook[h].mounted => Val(cache'[Ec2Key]).data = hook'[h].data]_vars

\* refresh was just called while the cache holds an entry written at this instant
C5_Witness ==
    /\ lastOp = <<"refresh", "h1">>
    /\ cache[Ec2Key] # Null
    /\ Val(cache[Ec2Key]).timestamp = now
    /\ Len(pending) >= 1
    /\ pending[Len(pending)].kind = "refresh"

\* C6: after clearCache no entry written before the clear is served: a load for
\* ec2 that is served from the cache is served an entry written after the last
\* clear, and a load that finds no such entry starts a backend request.
C6_NoHitSurvivesClear ==
    [][\A h \in Hooks :
        (IsLoad(h) /\ hook'[h].resourceType = "ec2") =>
            /\ hook'[h].fromCache =>
                  /\ cache[Ec2Key] # Null
                  /\ Val(cache[Ec2Key]).gen = clearCount
            /\ (\/ cache[Ec2Key] = Null
                \/ Val(cache[Ec2Key]).gen < clearCount) =>
                  /\ ~hook'[h].fromCache
                  /\ StartsOneFetch(h, "load")]_vars

\* a load for ec2, whose key held an entry when the cache was cleared, has just
\* gone to the backend
C6_Witness ==
    /\ lastOp = <<"load", "h1">>
    /\ clearCount >= 1
    /\ Ec2Key \in clearedKeys
    /\ hook["h1"].resourceType = "ec2"
    /\ hook["h1"].loading
    /\ ~hook["h1"].fromCache

\* C7: a load for a category other than ec2 yields data=[], loading=false,
\* error=null, fromCache=false, age=null and neither calls createProvider nor
\* a backend operation; refresh for such a category starts nothing either.
C7_UnsupportedShortCircuits ==
    [][\A h \in Hooks :
        /\ (IsLoad(h) /\ hook'[h].resourceType # "ec2") =>
              /\ hook'[h].data = <<>>
              /\ ~hook'[h].loading
              /\ hook'[h].error = Null
              /\ ~hook'[h].fromCache
              /\ hook'[h].cacheAge = Null
              /\ cache' = cache
              /\ StartsNoFetch
        /\ (lastOp' = <<"refresh", h>> /\ hook[h].resourceType # "ec2") =>
              StartsNoFetch /\ cache' = cache /\ hook' = hook]_vars

\* a load for s3 has just run while the cache holds ec2 data and an ec2 fetch is
\* still in flight
C7_Witness ==
    /\ lastOp = <<"load", "h1">>
    /\ hook["h1"].resourceType = "s3"
    /\ cache[Ec2Key] # Null
    /\ pending # <<>>

\* the step simulates a back-class key (left arrow or escape)
IsBackKeyPress == lastOp' \in {<<"simulateKeyPress", "leftArrow">>, <<"simulateKeyPress", "escape">>}

\* the step simulates a movement or confirm key
IsMoveOrConfirmKeyPress ==
    lastOp' \in {<<"simulateKeyPress", n>> : n \in {"upArrow", "downArrow", "k", "j", "return"}}

IsKeyEvent == lastOp'[1] = "key"

\* the active flag of the view owning listener l, as App's state determines it
\* (the dialog has no flag of its own: it is owned by Home, which displays it)
OwnerActive(l) ==
    /\ ~shouldQuit
    /\ CASE l \in {"homeNav", "homeC"} -> currentScreen = "home"
         [] l = "dialog" -> currentScreen = "home" /\ showConfirmation
         [] l \in {"listNav", "listView"} ->
                /\ currentScreen # "home"
                /\ ~hook[AppHook].loading
                /\ hook[AppHook].error = Null

\* C9: a listener whose owning view's active flag is false never has its
\* callback invoked for any key event: whatever is delivered to a listener, or
\* called by it, during a key event belongs to a listener whose view is active.
C9_InactiveNeverInvoked ==
    [][IsKeyEvent => \A f \in fired' : OwnerActive(f.by)]_vars

\* a key was pressed while the EC2 list was loading, and no handler ran
C9_Witness ==
    /\ lastOp[1] = "key"
    /\ nodeEnv = "production"
    /\ ~shouldQuit
    /\ currentScreen = "ec2"
    /\ hook[AppHook].loading
    /\ fired = {}

\* the listeners that acted on the key of the last step: they called a state
\* setter or a callback
Acted == {f.by : f \in {g \in fired : g.cb # "input"}}

\* C10: for every key event at most one registered input listener acts on the
\* keystroke (changes state or invokes a callback).
C10_AtMostOneListenerActs ==
    lastOp[1] = "key" => Cardinality(Acted) <= 1

\* the callbacks the confirmation dialog called during the key event of this step
DialogCalled == {f.cb : f \in {g \in fired' : g.by = "dialog" /\ g.cb # "input"}}

\* C11: the confirmation dialog, receiving a key, calls onConfirm (and not
\* onCancel) for 'y' or 'Y', onCancel (and not onConfirm) for 'n', 'N', escape or
\* enter, and neither callback for any other input.
C11_DialogKeyMapping ==
    [][(IsKeyEvent /\ Fired("dialog", "input", 0) \in fired') =>
        DialogCalled = (IF lastOp'[2] \in {"y", "Y"} THEN {"onConfirm"}
                        ELSE IF lastOp'[2] \in {"n", "N", "escape", "return"}
                        THEN {"onCancel"}
                        ELSE {})]_vars

\* 'Y' was just pressed in the dialog: onConfirm ran, the cache was cleared and
\* the dialog closed
C11_Witness ==
    /\ lastOp = <<"key", "Y">>
    /\ Fired("dialog", "onConfirm", 0) \in fired
    /\ clearCount = 1
    /\ ~showConfirmation

\* what ProviderFactory.create() did during this step, if it was called: the
\* variant it constructed, or "Error" when it threw
Resolution == {f.cb : f \in {g \in fired' : g.by = "ProviderFactory"}}

\* C12: resolution returns the SDK variant for mode sdk, the CLI variant for
\* mode cli, and the SDK variant for mode auto and when no mode is configured.
C12_BackendSelectorMapping ==
    [][Resolution # {} =>
        /\ backendEnv = "sdk" => Resolution = {"SdkProvider"}
        /\ backendEnv = "cli" => Resolution = {"CliProvider"}
        /\ backendEnv \in {"auto", "unset"} => Resolution = {"SdkProvider"}]_vars

\* with A3S_BACKEND=cli a fetch has just been handed the CLI provider
C12_Witness ==
    /\ backendEnv = "cli"
    /\ lastOp = <<"listEC2", AppHook>>
    /\ fired = {Fired("ProviderFactory", "CliProvider", 0)}

\* no fetch is at the stage of a backend operation
NoBackendOperation == \A i \in 1..Len(pending) : pending[i].stage # "listEC2"

\* C13 as stated: for any configured backend-mode string other than sdk, cli or
\* auto, resolution raises a configuration error, with no provider instantiated
\* and no backend operation attempted.
C13_AnyOtherStringIsError ==
    [][(Resolution # {} /\ backendEnv \notin {"unset", "sdk", "cli", "auto"}) =>
        Resolution = {"Error"} /\ NoBackendOperation']_vars

\* C13 (amended): for any configured backend-mode string that is not empty and
\* whose lower-case form is none of sdk, cli, auto, resolution raises a
\* configuration error at once: no provider is instantiated, no backend
\* operation is attempted, and the request ends with the error message.
C13_InvalidModeIsError ==
    [][(/\ Resolution # {}
        /\ backendEnv \notin {"unset", ""}
        /\ toLowerCase(backendEnv) \notin {"sdk", "cli", "auto"}) =>
            /\ Resolution = {"Error"}
            /\ NoBackendOperation'
            /\ Len(pending') = Len(pending) - 1
            /\ hook'[AppHook].error = Some(InvalidBackendMessage)
            /\ ~hook'[AppHook].loading]_vars

\* with A3S_BACKEND=api the resolution of a fetch has just thrown
C13_Witness ==
    /\ backendEnv = "api"
    /\ lastOp = <<"fetchFailed", AppHook>>
    /\ fired = {Fired("ProviderFactory", "Error", 0)}
    /\ hook[AppHook].error = Some(InvalidBackendMessage)

\* the configured backend mode is one that resolution rejects
InvalidMode == backendEnv \notin {"unset", ""} /\ toLowerCase(backendEnv) \notin {"sdk", "cli", "auto"}

\* C14: an invalid backend-mode value is surfaced before any UI interaction
\* begins: with an invalid mode configured, as long as the configuration error
\* has not been reported no listener has acted on a key event and no fetch has
\* been started.
C14_InvalidModeSurfacedFirst ==
    (InvalidMode /\ hook[AppHook].error # Some(InvalidBackendMessage)) =>
        /\ ~(lastOp[1] = "key" /\ Acted # {})
        /\ pending = <<>>

\* C15: in every reachable state of a navigation controller with itemCount > 0,
\* 0 <= selectedIndex < itemCount, across any interleaving of moves, itemCount
\* changes (including from or through 0) and active/inactive toggles.
C15_SelectionInvariant ==
    itemCount > 0 => (selectedIndex >= 0 /\ selectedIndex < itemCount)

\* the messages a failed fetch can report
FailureMessages == {"Network error", "Unknown error occurred", InvalidBackendMessage}

\* C16: when a fetch (initial load or refresh) fails, the cache is not written
\* (an entry keeps its payload and timestamp, an absent key stays absent) and
\* the consumer's state becomes error=<message>, data=[], loading=false.
C16_FailureLeavesCache ==
    [][\A h \in Hooks :
        lastOp' = <<"fetchFailed", h>> =>
            /\ cache' = cache
            /\ hook[h].mounted =>
                  /\ hook'[h].error \in {Some(msg) : msg \in FailureMessages}
                  /\ hook'[h].data = <<>>
                  /\ ~hook'[h].loading]_vars

\* a fetch has just failed while the cache holds an entry for the key and the
\* consumer was showing data
C16_Witness ==
    /\ lastOp = <<"fetchFailed", "h1">>
    /\ cache[Ec2Key] # Null
    /\ Val(cache[Ec2Key]).data # <<>>
    /\ hook["h1"].error = Some("Network error")
    /\ hook["h1"].data = <<>>

\* C17: when two consumers under the same cache provider request the same
\* supported category, the backend is invoked once: at most one fetch for the
\* category is in flight, and once nothing is in flight and nothing failed, one
\* consumer holds the fetched data with fromCache=false and the other holds the
\* same data with fromCache=true and loading=false.
C17_TwoConsumersOneFetch ==
    (\A h \in Hooks : hook[h].mounted /\ hook[h].resourceType = "ec2") =>
        /\ Len(pending) <= 1
        /\ (pending = <<>> /\ \A h \in Hooks : hook[h].error = Null) =>
              \E a, b \in Hooks :
                  /\ a # b
                  /\ ~hook[a].fromCache /\ ~hook[a].loading
                  /\ hook[b].fromCache /\ ~hook[b].loading
                  /\ hook[b].data = hook[a].data

\* C18: cache keys are independent: setCache(k, v) stores v under k and leaves
\* the entry of every other key unchanged (also when two writes are issued
\* before the provider re-renders), so a key written earlier keeps its payload.
C18_KeysIndependent ==
    [][\A k \in CacheKeys :
        lastOp' = <<"setCache", k>> =>
            /\ \E d \in Payloads : cache'[k] = Some(Entry(d, now, clearCount))
            /\ \A other \in CacheKeys \ {k} : cache'[other] = cache[other]]_vars

\* the listing view is displayed by the application running outside the tests
ListDisplayed == nodeEnv = "production" /\ ~shouldQuit /\ currentScreen # "home"

\* C19: while the listing view displays a fetch error, pressing 'r' invokes
\* refresh (a new fetch is started); 'r' has no effect when no error is
\* displayed.
C19_RetryOnError ==
    [][(ListDisplayed /\ lastOp' = <<"key", "r">>) =>
        IF hook[AppHook].error # Null
        THEN StartsOneFetch(AppHook, "refresh") /\ hook'[AppHook].loading
        ELSE pending' = pending /\ hook' = hook /\ currentScreen' = currentScreen]_vars

\* C20: the UI remains responsive to key events during a pending fetch: while
\* the listing view's fetch is in flight (loading=true), a back key returns to
\* home and 'q' quits.
C20_ResponsiveWhileLoading ==
    [][(ListDisplayed /\ hook[AppHook].loading /\ IsKeyEvent) =>
        /\ lastOp'[2] \in {"leftArrow", "escape"} => currentScreen' = "home"
        /\ lastOp'[2] = "q" => shouldQuit']_vars

\* C21: on a listing view, left arrow or escape invokes onBack and returns the
\* application to the home screen, also while an error is displayed.
C21_BackFromListing ==
    [][(ListDisplayed /\ lastOp' \in {<<"key", "leftArrow">>, <<"key", "escape">>}) =>
        /\ Fired("listView", "onBack", 0) \in fired'
        /\ currentScreen' = "home"]_vars

\* the fetch whose continuation runs in this step is pending[i]
Settles(i) == i \in 1..Len(pending) /\ pending' = RemoveAt(pending, i)

\* C22: after a failed fetch, an explicit refresh clears the error and starts a
\* request; when that request succeeds the consumer has error=null,
\* loading=false and the newly fetched records as data.
C22_RefreshRecovers ==
    [][\A h \in Hooks :
        /\ (/\ lastOp' = <<"refresh", h>>
            /\ hook[h].resourceType = "ec2"
            /\ hook[h].error # Null) =>
              /\ hook'[h].error = Null
              /\ hook'[h].loading
              /\ StartsOneFetch(h, "refresh")
        /\ (lastOp' = <<"fetchSucceeded", h>> /\ hook[h].mounted) =>
              \A i \in 1..Len(pending) :
                  (/\ Settles(i)
                   /\ pending[i].hook = h
                   /\ pending[i].kind = "refresh"
                   /\ pending[i].afterError) =>
                      /\ hook'[h].error = Null
                      /\ ~hook'[h].loading
                      /\ cache'[pending[i].key] # Null
                      /\ Val(cache'[pending[i].key]).timestamp = now
                      /\ hook'[h].data = Val(cache'[pending[i].key]).data]_vars

\* C23: clearCache empties the entire cache and neither cancels nor changes a
\* fetch in flight or a consumer's state; a fetch started before the clear, when
\* it succeeds, writes its result to the cache and to the consumer's state.
C23_ClearLeavesFetchesAlone ==
    [][\A h \in Hooks :
        /\ lastOp' = <<"clearCache", "provider">> =>
              /\ \A k \in CacheKeys : cache'[k] = Null
              /\ pending' = pending
              /\ hook' = hook
        /\ lastOp' = <<"fetchSucceeded", h>> =>
              \A i \in 1..Len(pending) :
                  (/\ Settles(i)
                   /\ pending[i].hook = h
                   /\ pending[i].clears < clearCount) =>
                      /\ cache'[pending[i].key] # Null
                      /\ Val(cache'[pending[i].key]).timestamp = now
                      /\ Val(cache'[pending[i].key]).gen = clearCount
                      /\ fired' = {Fired(h, FetchName(pending[i]), pending[i].clears)}
                      /\ hook[h].mounted =>
                            /\ hook'[h].data = Val(cache'[pending[i].key]).data
                            /\ ~hook'[h].loading
                            /\ ~hook'[h].fromCache]_vars

\* a fetch started before a clearCache that emptied a populated cache has just
\* succeeded and stored its records
C23_Witness ==
    /\ lastOp = <<"fetchSucceeded", "h1">>
    /\ clearCount = 1
    /\ Ec2Key \in clearedKeys
    /\ \E k \in {"load", "refresh", "refreshAfterError"} : fired = {Fired("h1", k, 0)}
    /\ cache[Ec2Key] # Null
    /\ Val(cache[Ec2Key]).gen = 1
    /\ Val(cache[Ec2Key]).data = <<"i-1">>
    /\ hook["h1"].data = <<"i-1">>

\* C24: when the controller's active flag toggles from false to true,
\* selectedIndex is reset to 0, whatever index it held before.
C24_ActivationResets ==
    [][(lastOp' = <<"render", "nav">> /\ ~isActive /\ isActive') =>
        selectedIndex' = 0]_vars

\* C25: when itemCount changes while the controller is active, selectedIndex
\* becomes 0 if it is >= the new itemCount and is unchanged otherwise.
C25_CountChangeResets ==
    [][(/\ lastOp' = <<"render", "nav">>
        /\ isActive /\ isActive'
        /\ itemCount' # itemCount) =>
            selectedIndex' = (IF selectedIndex >= itemCount' THEN 0 ELSE selectedIndex)]_vars

\* the list has just shrunk below the selected index of an active controller,
\* which went back to 0
C25_Witness ==
    /\ lastOp = <<"render", "nav">>
    /\ isActive
    /\ countChanged
    /\ itemCount = 2
    /\ fired = {Fired("nav", "resetEffect", 2)}
    /\ selectedIndex = 0

\* C26: confirming the selection (Enter key or select()) invokes onSelect with
\* the current selectedIndex and nothing else, and leaves selectedIndex
\* unchanged; quitting ('q' key or quit()) invokes onQuit and not onSelect, and
\* leaves selectedIndex unchanged.
C26_ConfirmAndQuitKeepIndex ==
    [][/\ (lastOp' \in {<<"select", "nav">>, <<"key", "return">>} /\ navProps.onSelect) =>
             /\ fired' = {Fired("nav", "onSelect", selectedIndex)}
             /\ selectedIndex' = selectedIndex
       /\ (lastOp' \in {<<"quit", "nav">>, <<"key", "q">>} /\ navProps.onQuit) =>
             /\ fired' = {Fired("nav", "onQuit", 0)}
             /\ selectedIndex' = selectedIndex]_vars

\* C27: when a fetch succeeds with a cache available, the payload is stored
\* under the category key with timestamp = now, and the consumer's state becomes
\* data=payload, fromCache=false, age=0, loading=false, error=null.
C27_SuccessStoresAndReports ==
    [][\A h \in Hooks :
        lastOp' = <<"fetchSucceeded", h>> =>
            \A i \in 1..Len(pending) :
                (Settles(i) /\ pending[i].hook = h /\ pending[i].ctx # Null) =>
                    /\ pending[i].key = Ec2Key
                    /\ cache'[Ec2Key] # Null
                    /\ Val(cache'[Ec2Key]).timestamp = now
                    /\ Val(cache'[Ec2Key]).data \in Payloads
                    /\ hook[h].mounted =>
                          /\ hook'[h].data = Val(cache'[Ec2Key]).data
                          /\ ~hook'[h].fromCache
                          /\ hook'[h].cacheAge = Some(0)
                          /\ ~hook'[h].loading
                          /\ hook'[h].error = Null]_vars

C29_NoAutomaticRetry ==
    [][/\ (\E h \in Hooks : lastOp' = <<"fetchFailed", h>>) =>
             \E i \in 1..Len(pending) : Settles(i)
       /\ Len(pending') > Len(pending) =>
             \E h \in Hooks :
                 /\ lastOp' \in {<<"load", h>>, <<"refresh", h>>}
                 /\ StartsOneFetch(h, lastOp'[1])
       /\ (\E h \in Hooks : lastOp' = <<"listEC2", h>>) =>
             \E i \in 1..Len(pending) :
                 /\ pending[i].stage = "provider"
                 /\ pending' = [pending EXCEPT ![i].stage = "listEC2"]]_vars

\* the only request has just failed: nothing is in flight and the consumer
\* shows the error
C29_Witness ==
    /\ lastOp = <<"fetchFailed", "h1">>
    /\ pending = <<>>
    /\ hook["h1"].mounted
    /\ hook["h1"].error = Some("Unknown error occurred")
    /\ ~hook["h1"].loading
    /\ cache[Ec2Key] = Null

\* C30: if the category changes before a fetch resolves, the abandoned fetch is
\* not cancelled (it stays in flight, with the key of the category it was
\* started for), and when it completes successfully its result is written to
\* the cache under that key, not under the key of the new category.
C30_AbandonedFetchStillStores ==
    [][\A h \in Hooks :
        /\ (IsLoad(h) /\ hook[h].mounted) =>
              /\ SubSeq(pending', 1, Len(pending)) = pending
              /\ Len(pending') > Len(pending) =>
                    pending'[Len(pending')].key = cacheKey(hook'[h].resourceType)
        /\ lastOp' = <<"fetchSucceeded", h>> =>
              \A i \in 1..Len(pending) :
                  (/\ Settles(i)
                   /\ pending[i].hook = h
                   /\ hook[h].mounted
                   /\ pending[i].key # cacheKey(hook[h].resourceType)) =>
                      /\ cache'[pending[i].key] # Null
                      /\ Val(cache'[pending[i].key]).timestamp = now
                      /\ Val(cache'[pending[i].key]).data \in Payloads
                      /\ cache'[cacheKey(hook[h].resourceType)] =
                             cache[cacheKey(hook[h].resourceType)]]_vars

\* the consumer moved on to s3 while its ec2 load was in flight, and that load
\* has just succeeded and stored its records under the ec2 key
C30_Witness ==
    /\ lastOp = <<"fetchSucceeded", "h1">>
    /\ fired = {Fired("h1", "load", 0)}
    /\ hook["h1"].mounted
    /\ hook["h1"].resourceType = "s3"
    /\ cache[Ec2Key] = Some(Entry(<<"i-1">>, now, clearCount))
    /\ cache[cacheKey("s3")] = Null

\* the operations that read the cache
Readers == {"getCache", "hasCache", "getCacheAge"}

\* the result a reader reported in the last step is a miss
ReportsMiss == fired \cap {Fired("consumer", "null", 0), Fired("consumer", "false", 0)} # {}

\* C31: reading a key whose entry is older than the TTL (getCache, hasCache or
\* getCacheAge) reports a miss and removes that entry, leaving the entries of
\* all other keys in place.
C31_ExpiredReadPrunes ==
    [][\A k \in CacheKeys, r \in Readers :
        (/\ lastOp' = <<r, k>>
         /\ cache[k] # Null
         /\ now - Val(cache[k]).timestamp > CACHE_TTL) =>
            /\ ReportsMiss'
            /\ cache'[k] = Null
            /\ \A other \in CacheKeys \ {k} : cache'[other] = cache[other]]_vars

\* the error provider.listEC2() rejected with in this step, if it did
Raised == {f \in fired' : f.by = "backend"}

\* C32: every backend error reaches the consumer's error unmodified: for each
\* error kind (transport, auth, parse, unimplemented) the failed fetch sets
\* error to exactly the message of the error raised (a thrown value that is not
\* an Error is reported as 'Unknown error occurred'), and the failure does not
\* end the application: the screen and the quit flag stay as they were.
C32_ErrorsBubbleUnmodified ==
    [][\A f \in Raised :
        /\ lastOp' = <<"fetchFailed", AppHook>>
        /\ f.arg = 1 => hook'[AppHook].error = Some(f.cb)
        /\ f.arg = 0 => hook'[AppHook].error = Some("Unknown error occurred")
        /\ hook'[AppHook].data = <<>>
        /\ ~hook'[AppHook].loading
        /\ shouldQuit' = shouldQuit
        /\ currentScreen' = currentScreen]_vars

\* listEC2 has just rejected with the error of an unimplemented operation, and
\* the listing screen shows its message
C32_Witness ==
    /\ lastOp = <<"fetchFailed", AppHook>>
    /\ fired = {Fired("backend", "listEC2 is not implemented yet", 1)}
    /\ hook[AppHook].error = Some("listEC2 is not implemented yet")
    /\ currentScreen = "ec2"
    /\ ~shouldQuit

MenuOrder == <<"ec2", "s3", "lambda", "rds">>

\* C34: on the home screen a confirm key at menu index i schedules the switch
\* to the listing screen of the i-th service (0 ec2, 1 s3, 2 lambda, 3 rds),
\* the scheduled switch then makes exactly that screen current, the screen
\* leaves home for a listing in no other way, and the current screen is always
\* one of home, ec2, s3, lambda, rds.
C34_ConfirmOpensIthService ==
    [][/\ currentScreen' \in Screens
       /\ (lastOp' = <<"key", "return">> /\ view(currentScreen, shouldQuit) = "home") =>
             /\ selectedIndex \in 0..3
             /\ timers' = Append(timers, MenuOrder[selectedIndex + 1])
             /\ currentScreen' = currentScreen
       /\ lastOp'[1] = "timer" =>
             /\ currentScreen' = Head(timers)
             /\ lastOp'[2] = Head(timers)
       /\ (currentScreen' # currentScreen /\ currentScreen' # "home") =>
             lastOp'[1] = "timer"]_vars

\* Enter at index 2 of the home menu has opened the Lambda listing
C34_Witness ==
    /\ lastOp = <<"timer", "lambda">>
    /\ currentScreen = "lambda"
    /\ view(currentScreen, shouldQuit) = "list"
    /\ hook[AppHook].resourceType = "lambda"

\* the keys the confirmation dialog answers to
ConfirmKeys == {"y", "Y"}
CancelKeys == {"n", "N", "escape", "return"}

ActedNext == {f.by : f \in {g \in fired' : g.cb # "input"}}

\* C36: while the confirmation dialog is displayed, a key leaves the hidden
\* home menu's controller alone: selectedIndex is unchanged, no service is
\* selected, the application does not quit, and no listener other than the
\* dialog acts on the key.
C36_DialogHidesMenuController ==
    [][(/\ IsKeyEvent
        /\ view(currentScreen, shouldQuit) = "home"
        /\ showConfirmation) =>
           /\ selectedIndex' = selectedIndex
           /\ timers' = timers
           /\ shouldQuit' = shouldQuit
           /\ ActedNext \subseteq {"dialog"}]_vars

\* C37: the FetchState belongs to the current category: when a request settles
\* (succeeds or fails) that was started for a category the consumer has since
\* left, the consumer's data, error and loading stay as they were.
C37_AbandonedFetchLeavesState ==
    [][\A h \in Hooks :
        lastOp' \in {<<"fetchSucceeded", h>>, <<"fetchFailed", h>>} =>
            \A i \in 1..Len(pending) :
                (/\ Settles(i)
                 /\ pending[i].hook = h
                 /\ hook[h].mounted
                 /\ pending[i].key # cacheKey(hook[h].resourceType)) =>
                    /\ hook'[h].data = hook[h].data
                    /\ hook'[h].error = hook[h].error
                    /\ hook'[h].loading = hook[h].loading]_vars

\* C38: when one of several overlapping requests of a consumer settles while
\* another request started for the consumer's current category is still in
\* flight, loading stays true.
C38_LoadingWhilePending ==
    [][\A h \in Hooks :
        lastOp' \in {<<"fetchSucceeded", h>>, <<"fetchFailed", h>>} =>
            \A i \in 1..Len(pending) :
                (/\ Settles(i)
                 /\ pending[i].hook = h
                 /\ hook[h].mounted
                 /\ \E j \in 1..Len(pending') :
                       /\ pending'[j].hook = h
                       /\ pending'[j].key = cacheKey(hook[h].resourceType)) =>
                    hook'[h].loading]_vars

MoveKeys == {"upArrow", "downArrow", "k", "j"}

\* C39: a confirm key event handled directly after a movement key event, with no
\* re-render in between, passes onSelect the index the movement left in the
\* state, not the index the last render read, and changes neither.
C39_ConfirmAfterMoveIsFresh ==
    [][(/\ lastOp[1] = "key"
        /\ lastOp[2] \in MoveKeys
        /\ lastOp' = <<"key", "return">>
        /\ navProps.onSelect) =>
           /\ fired' = {Fired("nav", "onSelect", selectedIndex)}
           /\ selectedIndex' = selectedIndex
           /\ renderedIndex' = renderedIndex]_vars

\* 'j' moved the selection from 0 to 1 and Enter followed before any re-render:
\* onSelect received 1 while the last render still holds 0
C39_Witness ==
    /\ lastOp = <<"key", "return">>
    /\ fired = {Fired("nav", "onSelect", 1)}
    /\ selectedIndex = 1
    /\ renderedIndex = 0
    /\ itemCount = 3

\* C40: a reader (getCache, hasCache, getCacheAge) that finds an entry for the
\* key reports a miss exactly when now - timestamp is strictly greater than
\* CACHE_TTL (300000 ms), so an entry whose age is exactly the TTL is a hit,
\* and for the same key at the same instant the three readers agree on hit or
\* miss; getCacheAge reports the age of a hit.
C40_TTLBoundary ==
    [][\A k \in CacheKeys, r \in Readers :
        (lastOp' = <<r, k>> /\ ctxCache[k] # Null) =>
            /\ ReportsMiss' <=> (now - Val(ctxCache[k]).timestamp > CACHE_TTL)
            /\ hasCache(ctxCache, k, now) <=> (getCache(ctxCache, k, now) # Null)
            /\ hasCache(ctxCache, k, now) <=> (getCacheAge(ctxCache, k, now) # Null)
            /\ (r = "getCacheAge" /\ ~ReportsMiss') =>
                  fired' = {Fired("consumer", "age", now - Val(ctxCache[k]).timestamp)}]_vars

\* hasCache has just answered true for an entry whose age is exactly the TTL
C40_Witness ==
    /\ lastOp = <<"hasCache", Ec2Key>>
    /\ fired = {Fired("consumer", "true", 0)}
    /\ ctxCache[Ec2Key] # Null
    /\ cache[Ec2Key] = ctxCache[Ec2Key]
    /\ now - Val(ctxCache[Ec2Key]).timestamp = CACHE_TTL

====
